---- MODULE Spec2Model ----
(***************************************************************************)
(* Model of completor's well-construction engine (class CreateWells in     *)
(* completor/create_wells.py): the active-well filter, the segment-method  *)
(* resolver, the per-lateral pipeline of update and the data selection of  *)
(* select_well.                                                            *)
(***************************************************************************)
EXTENDS Integers, Sequences, FiniteSets, TLC

VARIABLES
    completion_table,     \* case.completion_table: sequence of rows
    gp_perf_devicelayer,  \* case.gp_perf_devicelayer
    segment_length,       \* case.segment_length
    compsegs,             \* what schedule.get_compsegs returns
    compdat,              \* what schedule.get_compdat returns
    well_name,            \* self.well_name
    laterals,             \* self.laterals
    active_wells,         \* self.active_wells
    method,               \* self.method
    df_completion,        \* self.df_completion
    df_welsegs_header,    \* self.df_welsegs_header
    df_welsegs_content,   \* self.df_welsegs_content
    df_reservoir,         \* self.df_reservoir
    df_well_all,          \* self.df_well_all (lateral tags of its blocks)
    error,                \* exception raised by the last operation, if any
    warnings,             \* messages passed to logger.warning
    queries,              \* calls made to the case / schedule collaborators
    log,                  \* stages the current update has run, with their lateral
    lat,                  \* position of update's loop in self.laterals
    op,                   \* the operation last called on the engine
    runs,                 \* how often _active_wells and _method have run
    returned,             \* the table the last validation function returned
    pc                    \* position of the running operation

vars == << completion_table, gp_perf_devicelayer, segment_length, compsegs,
           compdat, well_name, laterals, active_wells, method, df_completion,
           df_welsegs_header, df_welsegs_content, df_reservoir, df_well_all,
           error, warnings, queries, log, lat, op, runs, returned, pc >>

caseVars == << completion_table, gp_perf_devicelayer, segment_length >>
scheduleVars == << compsegs, compdat >>
tableVars == << df_completion, df_welsegs_header, df_welsegs_content, df_reservoir >>
loopVars == << well_name, laterals, lat, log, queries, df_well_all >>

----
\* Bounds of the model
MaxRows == 2

\* Values
None == "<None>"
Wells == {"A", "B"}
AnnulusTypes == {"GP", "OA", "PA"}
DeviceTypes == {"PERF", "AICD", "AICV", "DAR", "ICD", "VALVE", "ICV"}
EmptyFrame == << >>
\* A configuration value that is absent
NoValue == [kind |-> "none", num |-> 0, nan |-> FALSE, text |-> << >>]
NoError == [raised |-> FALSE, type |-> "", head |-> "", arg |-> NoValue, tail |-> ""]

SeqsUpTo(S, n) == UNION {[1..k -> S] : k \in 0..n}
Range(s) == {s[i] : i \in DOMAIN s}

----
\* The engine's fields as __init__ leaves them before it calls _active_wells
\* and _method.
EngineFields ==
    /\ well_name = None
    /\ laterals = << >>
    /\ active_wells = << >>
    /\ method = None
    /\ df_completion = EmptyFrame
    /\ df_welsegs_header = EmptyFrame
    /\ df_welsegs_content = EmptyFrame
    /\ df_reservoir = EmptyFrame
    /\ df_well_all = EmptyFrame
    /\ error = NoError
    /\ warnings = << >>
    /\ queries = << >>
    /\ log = << >>
    /\ lat = 0
    /\ op = "none"
    /\ runs = [_active_wells |-> 0, _method |-> 0]
    /\ returned = EmptyFrame

InitFields == EngineFields /\ pc = "new"

----
\* CreateWells._active_wells

\* list(set(...)): the iteration order of a set of strings is not fixed by
\* the language (it follows the per-process string hash), so every order of
\* the distinct names is a possible outcome.
ListOfSet(S) ==
    {p \in [1..Cardinality(S) -> S] : \A i, j \in 1..Cardinality(S) : i # j => p[i] # p[j]}

WellColumn(tbl) == {tbl[i].WELL : i \in DOMAIN tbl}

\* list.remove(x): drops the first occurrence of x
ListRemove(lst, x) ==
    LET at == CHOOSE i \in DOMAIN lst : lst[i] = x /\ \A j \in 1..(i - 1) : lst[j] # x
    IN [k \in 1..(Len(lst) - 1) |-> IF k < at THEN lst[k] ELSE lst[k + 1]]

ActiveDevices == {"AICD", "AICV", "DAR", "ICD", "VALVE", "ICV"}

gp_check_all_gp(tbl, w) ==
    \A i \in DOMAIN tbl : tbl[i].WELL = w => tbl[i].ANNULUS = "GP"

gp_check(tbl, w) ==
    ~ \E i \in DOMAIN tbl : tbl[i].WELL = w /\ tbl[i].ANNULUS \in {"OA"}

perf_check(tbl, w) ==
    ~ \E i \in DOMAIN tbl : tbl[i].WELL = w /\ tbl[i].DEVICETYPE \in ActiveDevices

NoActiveWellsWarning == "There are no active wells for Completor to work on."

\* The loop over active_wells.copy(): k is the position in the copy, active
\* the list being shrunk. The emptiness test sits inside the loop body.
RECURSIVE ActiveWellsLoop(_, _, _, _, _)
ActiveWellsLoop(copy, k, active, tbl, flag) ==
    IF k > Len(copy)
    THEN [result |-> active, warned |-> << >>]
    ELSE LET w == copy[k]
             kept == IF gp_check(tbl, w) /\ perf_check(tbl, w) /\ ~flag
                     THEN ListRemove(active, w)
                     ELSE active
         IN IF kept = << >>
            THEN [result |-> << >>, warned |-> << NoActiveWellsWarning >>]
            ELSE ActiveWellsLoop(copy, k + 1, kept, tbl, flag)

ActiveWells ==
    /\ pc = "new"
    /\ \E order \in ListOfSet(WellColumn(completion_table)) :
         LET r == ActiveWellsLoop(order, 1, order, completion_table, gp_perf_devicelayer)
         IN /\ active_wells' = r.result
            /\ warnings' = warnings \o r.warned
    /\ pc' = "done"
    /\ op' = "_active_wells"
    /\ error' = NoError
    /\ runs' = [runs EXCEPT !._active_wells = @ + 1]
    /\ UNCHANGED << caseVars, scheduleVars, tableVars, loopVars, method, returned >>

\* C1 (as amended): once _active_wells has returned, a well of the table is
\* missing from the result exactly when none of its intervals has open
\* annulus (OA), none has an active device type, and the flag is false.
C1_ExcludedIffNoOpenAnnulus ==
    pc = "done" =>
        \A w \in WellColumn(completion_table) :
            (w \notin Range(active_wells)) <=>
                /\ \A i \in DOMAIN completion_table :
                     completion_table[i].WELL = w => completion_table[i].ANNULUS # "OA"
                /\ \A i \in DOMAIN completion_table :
                     completion_table[i].WELL = w =>
                        completion_table[i].DEVICETYPE
                            \notin {"AICD", "AICV", "DAR", "ICD", "VALVE", "ICV"}
                /\ gp_perf_devicelayer = FALSE

\* C1 (as stated): a well is missing from the result exactly when every one
\* of its intervals has gravel-pack annulus, none has an active device type,
\* and the flag is false.
C1_ExcludedIffAllGravelPack ==
    pc = "done" =>
        \A w \in WellColumn(completion_table) :
            (w \notin Range(active_wells)) <=>
                /\ \A i \in DOMAIN completion_table :
                     completion_table[i].WELL = w => completion_table[i].ANNULUS = "GP"
                /\ \A i \in DOMAIN completion_table :
                     completion_table[i].WELL = w =>
                        completion_table[i].DEVICETYPE
                            \notin {"AICD", "AICV", "DAR", "ICD", "VALVE", "ICV"}
                /\ gp_perf_devicelayer = FALSE

\* A well with a packer interval has been left out while another well stays.
C1_Witness ==
    /\ pc = "done"
    /\ active_wells # << >>
    /\ \E i \in DOMAIN completion_table :
         /\ completion_table[i].ANNULUS = "PA"
         /\ completion_table[i].WELL \notin Range(active_wells)

FirstRow(tbl, w) == CHOOSE i \in DOMAIN tbl : tbl[i].WELL = w /\ \A j \in 1..(i - 1) : tbl[j].WELL # w

\* C2: the returned names hold no name twice and stand in the order in which
\* the wells first appear in the WELL column.
C2_EncounterOrder ==
    pc = "done" =>
        \A i, j \in DOMAIN active_wells :
            i < j => /\ active_wells[i] # active_wells[j]
                     /\ FirstRow(completion_table, active_wells[i])
                            < FirstRow(completion_table, active_wells[j])

\* C6: whenever the result is empty the "no active wells" warning has been
\* emitted and no error was raised.
C6_EmptyResultWarns ==
    (pc = "done" /\ active_wells = << >>) =>
        /\ NoActiveWellsWarning \in Range(warnings)
        /\ ~error.raised

WellRows == [WELL : Wells, BRANCH : {1}, ANNULUS : AnnulusTypes, DEVICETYPE : DeviceTypes]

InitWells ==
    /\ completion_table \in SeqsUpTo(WellRows, MaxRows)
    /\ gp_perf_devicelayer \in BOOLEAN
    /\ segment_length = NoValue
    /\ compsegs = << >>
    /\ compdat = << >>
    /\ InitFields

NextWells == ActiveWells

SpecWells == InitWells /\ [][NextWells]_vars

----
\* CreateWells._method

MaxNum == 2
MaxWords == 2

\* Text is a sequence of characters. The texts of the model are built from
\* these pieces, which hold the keywords in several spellings.
Pieces ==
    { << "w", "e", "l", "s", "e", "g", "s" >>,
      << "W", "E", "L", "S", "E", "G", "S" >>,
      << "I", "n", "f", "i", "l", "l" >>,
      << "c", "e", "l", "l" >>,
      << "C", "E", "L", "L", "S" >>,
      << "U", "s", "e", "r" >>,
      << "u", "s", "e" >>,
      << "r" >>,
      << "x" >> }

RECURSIVE Concat(_)
Concat(ws) == IF ws = << >> THEN << >> ELSE Head(ws) \o Concat(Tail(ws))

Texts == {Concat(ws) : ws \in SeqsUpTo(Pieces, MaxWords)}

\* The values case.segment_length can hold: a float (a number or NaN), an
\* int, a str, or an object of another type.
FloatValues ==
    [kind : {"float"}, num : (-MaxNum)..MaxNum, nan : {FALSE}, text : {<< >>}]
        \cup {[kind |-> "float", num |-> 0, nan |-> TRUE, text |-> << >>]}
IntValues == [kind : {"int"}, num : (-MaxNum)..MaxNum, nan : {FALSE}, text : {<< >>}]
StrValues == [kind : {"str"}, num : {0}, nan : {FALSE}, text : Texts]
OtherValues == {[kind |-> "other", num |-> 0, nan |-> FALSE, text |-> << >>]}
SegmentLengths == FloatValues \cup IntValues \cup StrValues \cup OtherValues

UpperCase == << "A", "B", "C", "D", "E", "F", "G", "H", "I", "J", "K", "L", "M",
                "N", "O", "P", "Q", "R", "S", "T", "U", "V", "W", "X", "Y", "Z" >>
LowerCase == << "a", "b", "c", "d", "e", "f", "g", "h", "i", "j", "k", "l", "m",
                "n", "o", "p", "q", "r", "s", "t", "u", "v", "w", "x", "y", "z" >>

lower_char(c) ==
    IF \E i \in DOMAIN UpperCase : UpperCase[i] = c
    THEN LowerCase[CHOOSE i \in DOMAIN UpperCase : UpperCase[i] = c]
    ELSE c

\* str.lower()
lower(s) == [i \in DOMAIN s |-> lower_char(s[i])]

\* sub in s
contains(sub, s) ==
    \E at \in 0..(Len(s) - Len(sub)) : SubSeq(s, at + 1, at + Len(sub)) = sub

kw_welsegs == << "w", "e", "l", "s", "e", "g", "s" >>
kw_infill == << "i", "n", "f", "i", "l", "l" >>
kw_cell == << "c", "e", "l", "l" >>
kw_user == << "u", "s", "e", "r" >>

Returned(m) == [method |-> m, error |-> NoError]
Raised(head, x, tail) ==
    [method |-> None,
     error |-> [raised |-> TRUE, type |-> "ValueError", head |-> head, arg |-> x, tail |-> tail]]

UnrecognizedMethod(x) ==
    Raised("Unrecognized method '", x, "' in SEGMENTLENGTH keyword. The value should be one of: 'WELSEGS', 'CELLS', 'USER', or a number: -1 for 'USER', 0 for 'CELLS', positive number for 'FIX'.")
UnrecognizedType(x) ==
    Raised("Unrecognized type of '", x, "' in SEGMENTLENGTH keyword. The keyword must either be float or string.")

\* Comparisons of a float: every comparison with NaN is false.
FloatGt(x, n) == ~x.nan /\ x.num > n
FloatEq(x, n) == ~x.nan /\ x.num = n
FloatLt(x, n) == ~x.nan /\ x.num < n

\* the isinstance(..., float) branch
method_float_ge(x) ==
    IF FloatGt(x, 0) \/ FloatEq(x, 0) THEN Returned("FIX")
    ELSE IF FloatLt(x, 0) THEN Returned("USER")
    ELSE UnrecognizedMethod(x)

method_float(x) ==
    IF FloatGt(x, 0) THEN Returned("FIX")
    ELSE IF FloatEq(x, 0) THEN Returned("CELLS")
    ELSE IF FloatLt(x, 0) THEN Returned("USER")
    ELSE UnrecognizedMethod(x)

\* the isinstance(..., str) branch
method_str_cell_first(x) ==
    IF contains(kw_cell, lower(x.text)) THEN Returned("CELLS")
    ELSE IF contains(kw_welsegs, lower(x.text)) \/ contains(kw_infill, lower(x.text))
    THEN Returned("WELSEGS")
    ELSE IF contains(kw_user, lower(x.text)) THEN Returned("USER")
    ELSE UnrecognizedMethod(x)

method_str_default_user(x) ==
    IF contains(kw_welsegs, lower(x.text)) \/ contains(kw_infill, lower(x.text))
    THEN Returned("WELSEGS")
    ELSE IF contains(kw_cell, lower(x.text)) THEN Returned("CELLS")
    ELSE Returned("USER")

method_str(x) ==
    IF contains(kw_welsegs, lower(x.text)) \/ contains(kw_infill, lower(x.text))
    THEN Returned("WELSEGS")
    ELSE IF contains(kw_cell, lower(x.text)) THEN Returned("CELLS")
    ELSE IF contains(kw_user, lower(x.text)) THEN Returned("USER")
    ELSE UnrecognizedMethod(x)

_method(x) ==
    IF x.kind = "float" THEN method_float(x)
    ELSE IF x.kind = "str" THEN method_str(x)
    ELSE UnrecognizedType(x)

\* self.method = self._method(): the field is assigned only when the call
\* returns.
Method ==
    /\ pc = "new"
    /\ LET r == _method(segment_length)
       IN /\ method' = (IF r.error.raised THEN method ELSE r.method)
          /\ error' = r.error
    /\ pc' = "done"
    /\ op' = "_method"
    /\ runs' = [runs EXCEPT !._method = @ + 1]
    /\ UNCHANGED << caseVars, scheduleVars, tableVars, loopVars, active_wells, warnings,
                    returned >>

InitMethod ==
    /\ completion_table = << >>
    /\ gp_perf_devicelayer = FALSE
    /\ segment_length \in SegmentLengths
    /\ compsegs = << >>
    /\ compdat = << >>
    /\ InitFields

NextMethod == Method

SpecMethod == InitMethod /\ [][NextMethod]_vars

\* The text holds the keyword kw when letter case is ignored.
HoldsKeyword(s, kw) ==
    \E at \in 0..(Len(s) - Len(kw)) :
        \A j \in 1..Len(kw) : s[at + j] = kw[j] \/ s[at + j] = UpperCase[CHOOSE i \in DOMAIN LowerCase : LowerCase[i] = kw[j]]

\* C3 (as amended): for a float other than NaN, _method returns FIX above 0,
\* CELLS at 0 and USER below 0 and raises nothing; a number that arrives as an
\* int is rejected with the unrecognized-type error.
C3_FloatTrichotomy ==
    pc = "done" =>
        /\ (segment_length.kind = "float" /\ ~segment_length.nan) =>
              /\ ~error.raised
              /\ segment_length.num > 0 => method = "FIX"
              /\ segment_length.num = 0 => method = "CELLS"
              /\ segment_length.num < 0 => method = "USER"
        /\ segment_length.kind = "int" =>
              /\ error.raised
              /\ error.head = "Unrecognized type of '"
              /\ method = None

\* C3 (as stated): for every numeric value, int or float, _method returns
\* FIX above 0, CELLS at 0 and USER below 0 and does not fail.
C3_NumericTrichotomy ==
    (pc = "done" /\ segment_length.kind \in {"float", "int"}) =>
        /\ ~error.raised
        /\ (~segment_length.nan /\ segment_length.num > 0) => method = "FIX"
        /\ (~segment_length.nan /\ segment_length.num = 0) => method = "CELLS"
        /\ (~segment_length.nan /\ segment_length.num < 0) => method = "USER"

\* _method has resolved a negative float to USER.
C3_Witness ==
    /\ pc = "done"
    /\ segment_length.kind = "float"
    /\ segment_length.num < 0
    /\ method = "USER"

\* C4: for a string, the first matching row of the decision table decides,
\* letter case ignored: welsegs or infill gives WELSEGS, else cell gives
\* CELLS, else user gives USER.
C4_StringDecisionTable ==
    (pc = "done" /\ segment_length.kind = "str") =>
        LET s == segment_length.text
        IN /\ (HoldsKeyword(s, kw_welsegs) \/ HoldsKeyword(s, kw_infill)) =>
                (method = "WELSEGS" /\ ~error.raised)
           /\ (/\ ~HoldsKeyword(s, kw_welsegs)
               /\ ~HoldsKeyword(s, kw_infill)
               /\ HoldsKeyword(s, kw_cell)) => (method = "CELLS" /\ ~error.raised)
           /\ (/\ ~HoldsKeyword(s, kw_welsegs)
               /\ ~HoldsKeyword(s, kw_infill)
               /\ ~HoldsKeyword(s, kw_cell)
               /\ HoldsKeyword(s, kw_user)) => (method = "USER" /\ ~error.raised)

\* A string that holds both "cell" and, in capitals, "welsegs" has been
\* resolved to WELSEGS.
C4_Witness ==
    /\ pc = "done"
    /\ segment_length.kind = "str"
    /\ HoldsKeyword(segment_length.text, kw_cell)
    /\ HoldsKeyword(segment_length.text, kw_welsegs)
    /\ ~contains(kw_welsegs, segment_length.text)
    /\ method = "WELSEGS"

\* C5: a string that holds no keyword, and a value that is neither a number
\* nor a string, yield no method but a ValueError whose message holds the
\* value.
C5_UnmatchedValueFails ==
    (/\ pc = "done"
     /\ \/ segment_length.kind = "other"
        \/ /\ segment_length.kind = "str"
           /\ ~HoldsKeyword(segment_length.text, kw_welsegs)
           /\ ~HoldsKeyword(segment_length.text, kw_infill)
           /\ ~HoldsKeyword(segment_length.text, kw_cell)
           /\ ~HoldsKeyword(segment_length.text, kw_user)) =>
        /\ method = None
        /\ error.raised
        /\ error.type = "ValueError"
        /\ error.arg = segment_length

\* A non-empty string without keyword has been rejected.
C5_Witness ==
    /\ pc = "done"
    /\ segment_length.kind = "str"
    /\ Len(segment_length.text) > 1
    /\ error.raised
    /\ error.arg = segment_length
    /\ method = None

----
\* CreateWells.update, _active_laterals and select_well

MaxBranch == 2
MaxCompsegs == 2
MaxCompdat == 2

Branches == 1..MaxBranch
Cells == {[I |-> 1, J |-> 1, K |-> 1], [I |-> 1, J |-> 1, K |-> 2]}
Depths == {10, 20}
Factors == {1, 2}
CompsegsRows == [I : {1}, J : {1}, K : {1, 2}, STARTMD : Depths]
CompdatRows == [I : {1}, J : {1}, K : {1, 2}, CF : Factors]

\* Series.unique(): the distinct values in order of first appearance
RECURSIVE unique(_)
unique(s) ==
    IF s = << >> THEN << >>
    ELSE LET init == unique(SubSeq(s, 1, Len(s) - 1))
             last == s[Len(s)]
         IN IF last \in Range(init) THEN init ELSE Append(init, last)

WellRowsOf(tbl, w) == SelectSeq(tbl, LAMBDA r : r.WELL = w)
BranchColumn(tbl) == [i \in DOMAIN tbl |-> tbl[i].BRANCH]

RECURSIVE SortAscending(_)
SortAscending(s) ==
    IF s = << >> THEN << >>
    ELSE LET least == CHOOSE x \in Range(s) : \A y \in Range(s) : x <= y
         IN << least >> \o SortAscending(SelectSeq(s, LAMBDA y : y # least))

_active_laterals_sorted(tbl, w) == SortAscending(unique(BranchColumn(WellRowsOf(tbl, w))))

_active_laterals(tbl, w) == unique(BranchColumn(WellRowsOf(tbl, w)))

\* The collaborators. case.get_completion filters the completion table to
\* the well and lateral; the schedule returns the records it holds for the
\* well, the grid-connection rows carrying the well's name.
get_completion(w, lateral) ==
    SelectSeq(completion_table, LAMBDA r : r.WELL = w /\ r.BRANCH = lateral)
get_welsegs(w, lateral) ==
    [header |-> << [WELL |-> w] >>, content |-> << [WELL |-> w, TUBINGBRANCH |-> lateral] >>]
get_compsegs(w, lateral) == compsegs
get_compdat(w) ==
    [i \in DOMAIN compdat |->
        [WELL |-> w, I |-> compdat[i].I, J |-> compdat[i].J, K |-> compdat[i].K,
         CF |-> compdat[i].CF]]

\* pd.merge(left, right, how="inner", on=["I", "J", "K"]): the rows follow
\* the order of the left keys, and for one left row the matching right rows
\* follow the right order.
RECURSIVE merge(_, _)
merge(left, right) ==
    IF left = << >> THEN << >>
    ELSE LET l == Head(left)
             m == SelectSeq(right, LAMBDA r : r.I = l.I /\ r.J = l.J /\ r.K = l.K)
         IN [i \in DOMAIN m |->
                [I |-> l.I, J |-> l.J, K |-> l.K, STARTMD |-> l.STARTMD,
                 WELL |-> m[i].WELL, CF |-> m[i].CF]]
            \o merge(Tail(left), right)

\* The merged frame has the default index 0, 1, 2, ...; drop(["WELL"]) removes
\* the WELL column.
drop_well(df) ==
    [i \in DOMAIN df |->
        [index |-> i - 1, I |-> df[i].I, J |-> df[i].J, K |-> df[i].K,
         STARTMD |-> df[i].STARTMD, CF |-> df[i].CF]]

RECURSIVE Pick(_, _, _)
Pick(df, keep, i) ==
    IF i > Len(df) THEN << >>
    ELSE (IF i \in keep THEN << df[i] >> ELSE << >>) \o Pick(df, keep, i + 1)

\* drop_duplicates(subset="STARTMD", keep="last"); the reset_index that
\* follows keeps the old index as a column and numbers the rows anew.
drop_duplicates(df) ==
    Pick(df, {i \in DOMAIN df : \A j \in (i + 1)..Len(df) : df[j].STARTMD # df[i].STARTMD}, 1)

NoWellName ==
    [raised |-> TRUE, type |-> "ValueError", head |-> "No well name given",
     arg |-> NoValue, tail |-> ""]

WelsegsQueries == << "get_welsegs", "get_compsegs", "get_compdat" >>

\* select_well: what the call leaves in the engine's tables, the exception it
\* raises and the collaborators it has queried.
select_well_unchecked(lateral) ==
    [error |-> IF well_name = None THEN NoWellName ELSE NoError,
     queries |-> << "get_completion" >> \o (IF well_name = None THEN << >> ELSE WelsegsQueries),
     df_completion |-> get_completion(well_name, lateral),
     df_welsegs_header |->
        IF well_name = None THEN df_welsegs_header ELSE get_welsegs(well_name, lateral).header,
     df_welsegs_content |->
        IF well_name = None THEN df_welsegs_content ELSE get_welsegs(well_name, lateral).content,
     df_reservoir |->
        IF well_name = None THEN df_reservoir
        ELSE drop_duplicates(drop_well(merge(get_compsegs(well_name, lateral),
                                             get_compdat(well_name))))]

select_well(lateral) ==
    IF well_name = None
    THEN [error |-> NoWellName, queries |-> << >>,
          df_completion |-> df_completion,
          df_welsegs_header |-> df_welsegs_header,
          df_welsegs_content |-> df_welsegs_content,
          df_reservoir |-> df_reservoir]
    ELSE [error |-> NoError,
          queries |-> << "get_completion" >> \o WelsegsQueries,
          df_completion |-> get_completion(well_name, lateral),
          df_welsegs_header |-> get_welsegs(well_name, lateral).header,
          df_welsegs_content |-> get_welsegs(well_name, lateral).content,
          df_reservoir |->
             drop_duplicates(drop_well(merge(get_compsegs(well_name, lateral),
                                             get_compdat(well_name))))]

\* combine_df: the first lateral of the well starts the well-level result
\* anew, every later one is appended to it. The result is modelled by the
\* lateral tags of its blocks.
combine_df(lateral) ==
    IF lateral = laterals[1] THEN << lateral >> ELSE Append(df_well_all, lateral)

\* The body of update's loop, in call order.
StagesSwapped ==
    << "select_well", "well_trajectory", "define_annulus_zone", "create_tubing_segments",
       "insert_missing_segments", "complete_the_well", "correct_annulus_zone", "get_devices",
       "connect_cells_to_segments", "add_well_lateral_column", "combine_df" >>

Stages ==
    << "select_well", "well_trajectory", "define_annulus_zone", "create_tubing_segments",
       "insert_missing_segments", "complete_the_well", "get_devices", "correct_annulus_zone",
       "connect_cells_to_segments", "add_well_lateral_column", "combine_df" >>

StageIndex(name) == CHOOSE k \in DOMAIN Stages : Stages[k] = name

Idle == pc \in {"new", "done"}

\* update is called: it stores the well name, lists the well's laterals and
\* enters the loop.
Update(w) ==
    /\ Idle
    /\ op' = "update"
    /\ well_name' = w
    /\ laterals' = _active_laterals(completion_table, w)
    /\ log' = << >>
    /\ queries' = << >>
    /\ error' = NoError
    /\ IF laterals' = << >>
       THEN pc' = "done" /\ lat' = 0
       ELSE pc' = Stages[1] /\ lat' = 1
    /\ UNCHANGED << caseVars, scheduleVars, tableVars, active_wells, method, df_well_all,
                    warnings, runs, returned >>

\* One stage of the loop body runs for the current lateral; an exception of
\* the stage ends update.
RunStage ==
    /\ pc \in Range(Stages)
    /\ LET lateral == laterals[lat]
           k == StageIndex(pc)
           r == select_well(lateral)
           failed == pc = "select_well" /\ r.error.raised
       IN /\ log' = Append(log, << pc, lateral >>)
          /\ IF pc = "select_well"
             THEN /\ df_completion' = r.df_completion
                  /\ df_welsegs_header' = r.df_welsegs_header
                  /\ df_welsegs_content' = r.df_welsegs_content
                  /\ df_reservoir' = r.df_reservoir
                  /\ queries' = queries \o r.queries
                  /\ error' = r.error
             ELSE UNCHANGED << tableVars, queries, error >>
          /\ df_well_all' = IF pc = "combine_df" THEN combine_df(lateral) ELSE df_well_all
          /\ IF failed THEN pc' = "done" /\ lat' = 0
             ELSE IF k < Len(Stages) THEN pc' = Stages[k + 1] /\ lat' = lat
             ELSE IF lat < Len(laterals) THEN pc' = Stages[1] /\ lat' = lat + 1
             ELSE pc' = "done" /\ lat' = 0
    /\ UNCHANGED << caseVars, scheduleVars, well_name, laterals, active_wells, method,
                    warnings, op, runs, returned >>

\* select_well is called on the engine directly.
SelectWell(lateral) ==
    /\ Idle
    /\ op' = "select_well"
    /\ LET r == select_well(lateral)
       IN /\ df_completion' = r.df_completion
          /\ df_welsegs_header' = r.df_welsegs_header
          /\ df_welsegs_content' = r.df_welsegs_content
          /\ df_reservoir' = r.df_reservoir
          /\ queries' = r.queries
          /\ error' = r.error
    /\ pc' = "done"
    /\ UNCHANGED << caseVars, scheduleVars, well_name, laterals, lat, log, df_well_all,
                    active_wells, method, warnings, runs, returned >>

NextEngine ==
    \/ \E w \in Wells \cup {None} : Update(w)
    \/ RunStage
    \/ \E lateral \in Branches : SelectWell(lateral)

LateralRows == [WELL : Wells, BRANCH : Branches, ANNULUS : {"OA"}, DEVICETYPE : {"ICD"}]
SampleCompsegs == << [I |-> 1, J |-> 1, K |-> 1, STARTMD |-> 10] >>
SampleCompdat == << [I |-> 1, J |-> 1, K |-> 1, CF |-> 1] >>
SampleCompletion == << [WELL |-> "A", BRANCH |-> 1, ANNULUS |-> "OA", DEVICETYPE |-> "ICD"] >>

\* The pipeline over every completion table, with one schedule
InitUpdate ==
    /\ completion_table \in SeqsUpTo(LateralRows, MaxRows)
    /\ gp_perf_devicelayer = FALSE
    /\ segment_length = NoValue
    /\ compsegs = SampleCompsegs
    /\ compdat = SampleCompdat
    /\ InitFields

SpecUpdate == InitUpdate /\ [][NextEngine]_vars

\* The pipeline over every schedule, with one completion table
InitSelect ==
    /\ completion_table = SampleCompletion
    /\ gp_perf_devicelayer = FALSE
    /\ segment_length = NoValue
    /\ compsegs \in SeqsUpTo(CompsegsRows, MaxCompsegs)
    /\ compdat \in SeqsUpTo(CompdatRows, MaxCompdat)
    /\ InitFields

SpecSelect == InitSelect /\ [][NextEngine]_vars

\* The order of the stages that the documentation of the pipeline gives
PipelineOrder ==
    << "select_well", "well_trajectory", "define_annulus_zone", "create_tubing_segments",
       "insert_missing_segments", "complete_the_well", "get_devices", "correct_annulus_zone",
       "connect_cells_to_segments", "add_well_lateral_column", "combine_df" >>

ExpectedLog ==
    [k \in 1..(Len(PipelineOrder) * Len(laterals)) |->
        << PipelineOrder[((k - 1) % Len(PipelineOrder)) + 1],
           laterals[((k - 1) \div Len(PipelineOrder)) + 1] >>]

\* C7: within one call of update the stages that have run are, lateral after
\* lateral, the stages of the pipeline in its order, each once per lateral,
\* the tagging and the combination last; when update returns, every lateral
\* has gone through all of them.
C7_StagesInOrder ==
    op = "update" =>
        /\ Len(log) <= Len(ExpectedLog)
        /\ \A k \in DOMAIN log : log[k] = ExpectedLog[k]
        /\ pc = "done" => log = ExpectedLog
        /\ pc # "done" => pc = ExpectedLog[Len(log) + 1][1]

\* update has returned after taking two or more laterals through the stages.
C7_Witness ==
    /\ op = "update"
    /\ pc = "done"
    /\ Len(laterals) >= 2
    /\ Len(log) = Len(PipelineOrder) * Len(laterals)

FirstBranchRow(b) ==
    CHOOSE i \in DOMAIN completion_table :
        /\ completion_table[i].WELL = well_name
        /\ completion_table[i].BRANCH = b
        /\ \A j \in 1..(i - 1) :
              ~(completion_table[j].WELL = well_name /\ completion_table[j].BRANCH = b)

UpdateReturned ==
    /\ op = "update"
    /\ pc = "done"
    /\ \E i \in DOMAIN completion_table : completion_table[i].WELL = well_name

SameCell(r, q) == r.I = q.I /\ r.J = q.J /\ r.K = q.K

\* C9: after select_well the reservoir table holds, of the joined grid
\* connection rows, exactly the last row of every index tuple (I, J, K), in
\* their relative order, so no index tuple occurs twice.
C9_LastRowPerCell ==
    (op = "select_well" /\ ~error.raised) =>
        LET joined == merge(get_compsegs(well_name, 1), get_compdat(well_name))
            last == {i \in DOMAIN joined :
                        \A j \in (i + 1)..Len(joined) : ~SameCell(joined[j], joined[i])}
            kept == Pick(joined, last, 1)
        IN /\ Len(df_reservoir) = Len(kept)
           /\ \A i \in DOMAIN df_reservoir :
                /\ SameCell(df_reservoir[i], kept[i])
                /\ df_reservoir[i].STARTMD = kept[i].STARTMD
                /\ df_reservoir[i].CF = kept[i].CF
           /\ \A i, j \in DOMAIN df_reservoir :
                i # j => ~SameCell(df_reservoir[i], df_reservoir[j])

MissingWell(e) == e.raised /\ e.type = "ValueError" /\ e.head = "No well name given"

\* C10: a call of select_well while the well name is unset raises the
\* missing-well error, queries no collaborator and leaves df_completion,
\* df_welsegs_header, df_welsegs_content and df_reservoir as they were.
C10_UnsetWellNameFails ==
    [][(well_name = None /\ op' = "select_well") =>
          /\ MissingWell(error')
          /\ queries' = << >>
          /\ df_completion' = df_completion
          /\ df_welsegs_header' = df_welsegs_header
          /\ df_welsegs_content' = df_welsegs_content
          /\ df_reservoir' = df_reservoir]_vars

\* select_well has failed on an engine whose tables hold an earlier well.
C10_Witness ==
    /\ op = "select_well"
    /\ well_name = None
    /\ MissingWell(error)
    /\ df_completion # EmptyFrame
    /\ df_reservoir # EmptyFrame

----
\* CreateWells.__init__ and the life of the engine it constructs

\* The constructor returns an engine only when no call it makes has raised:
\* an exception of _method leaves __init__ and no instance is bound.
ConstructorReturnsAlways(e) == TRUE

ConstructorReturns(e) == ~e.raised

\* CreateWells(case): the fields are set, then _active_wells and _method run.
Construct ==
    /\ pc = "init"
    /\ op' = "__init__"
    /\ \E order \in ListOfSet(WellColumn(completion_table)) :
         LET r == ActiveWellsLoop(order, 1, order, completion_table, gp_perf_devicelayer)
         IN /\ active_wells' = r.result
            /\ warnings' = warnings \o r.warned
    /\ LET m == _method(segment_length)
       IN /\ method' = (IF m.error.raised THEN method ELSE m.method)
          /\ error' = m.error
          /\ pc' = IF ConstructorReturns(m.error) THEN "new" ELSE "failed"
    /\ runs' = [_active_wells |-> runs._active_wells + 1, _method |-> runs._method + 1]
    /\ UNCHANGED << caseVars, scheduleVars, tableVars, loopVars, returned >>

NextCase == Construct \/ NextEngine

\* Every segment-length value, with one completion table and one schedule
InitCase ==
    /\ completion_table = SampleCompletion
    /\ gp_perf_devicelayer \in BOOLEAN
    /\ segment_length \in SegmentLengths
    /\ compsegs = SampleCompsegs
    /\ compdat = SampleCompdat
    /\ EngineFields
    /\ pc = "init"

SpecCase == InitCase /\ [][NextCase]_vars

\* The values that no row of the decision table of _method accepts
Unrecognized(x) ==
    \/ x.kind \notin {"float", "str"}
    \/ x.kind = "float" /\ x.nan
    \/ /\ x.kind = "str"
       /\ ~HoldsKeyword(x.text, kw_welsegs)
       /\ ~HoldsKeyword(x.text, kw_infill)
       /\ ~HoldsKeyword(x.text, kw_cell)
       /\ ~HoldsKeyword(x.text, kw_user)

\* C11: with an unrecognized segment-length value the construction fails and
\* nothing is ever run on an engine: no update, no select_well, no stage, no
\* collaborator query, no table filled; and in every case the active-well
\* filter and the method resolver have each run once when construction is
\* over and never run again.
C11_UnrecognizedAborts ==
    /\ Unrecognized(segment_length) =>
          /\ pc \in {"init", "failed"}
          /\ op \in {"none", "__init__"}
          /\ pc = "failed" => (error.raised /\ method = None)
          /\ well_name = None
          /\ log = << >>
          /\ queries = << >>
          /\ df_completion = EmptyFrame
          /\ df_reservoir = EmptyFrame
          /\ df_well_all = EmptyFrame
    /\ runs._active_wells <= 1
    /\ runs._method <= 1
    /\ pc # "init" => (runs._active_wells = 1 /\ runs._method = 1)

\* The construction has failed on a string without keyword.
C11_Witness ==
    /\ pc = "failed"
    /\ segment_length.kind = "str"
    /\ error.raised
    /\ runs._method = 1

----
\* input_validation: assess_completion and _check_for_errors

MaxAssessRows == 3
MaxCheckRows == 2

NoAbort == NoError
Abort(msg) ==
    [raised |-> TRUE, type |-> "SystemExit", head |-> msg, arg |-> NoValue, tail |-> ""]

ValidDevices == {"PERF", "AICD", "ICD", "VALVE", "DAR", "AICV", "ICV"}
ValidAnnulus == {"GP", "OA", "PA"}

\* _check_for_errors(df_comp, well_name, idx): the abort it raises, if any.
\* Rows are counted from 1 here, so iloc[idx] of the code is df[idx] with
\* the code's idx + 1.
_check_for_errors_no_icv(df, w, idx) ==
    IF df[idx].ANNULUS = "PA" /\ df[idx].STARTMD # df[idx].ENDMD
    THEN Abort("Packer segments must not have length")
    ELSE IF df[idx].ANNULUS # "PA" /\ df[idx].STARTMD = df[idx].ENDMD
    THEN Abort("Non packer segments must have length")
    ELSE IF idx > 1 /\ df[idx].STARTMD > df[idx - 1].ENDMD
    THEN Abort("Incomplete completion description")
    ELSE IF idx > 1 /\ df[idx].STARTMD < df[idx - 1].ENDMD
    THEN Abort("Overlapping completion description")
    ELSE IF df[idx].DEVICETYPE \notin ValidDevices
    THEN Abort("not a valid device type")
    ELSE IF df[idx].ANNULUS \notin ValidAnnulus
    THEN Abort("not a valid annulus type")
    ELSE NoAbort

_check_for_errors(df, w, idx) ==
    IF df[idx].ANNULUS = "PA" /\ df[idx].STARTMD # df[idx].ENDMD
    THEN Abort("Packer segments must not have length")
    ELSE IF /\ df[idx].ANNULUS # "PA"
            /\ df[idx].DEVICETYPE # "ICV"
            /\ df[idx].STARTMD = df[idx].ENDMD
    THEN Abort("Non packer segments must have length")
    ELSE IF idx > 1 /\ df[idx].STARTMD > df[idx - 1].ENDMD
    THEN Abort("Incomplete completion description")
    ELSE IF idx > 1 /\ df[idx].STARTMD < df[idx - 1].ENDMD
    THEN Abort("Overlapping completion description")
    ELSE IF df[idx].DEVICETYPE \notin ValidDevices
    THEN Abort("not a valid device type")
    ELSE IF df[idx].ANNULUS \notin ValidAnnulus
    THEN Abort("not a valid annulus type")
    ELSE NoAbort

\* for idx in range(0, nrow): the first abort ends the run
RECURSIVE AssessRows(_, _, _)
AssessRows(df, w, idx) ==
    IF idx > Len(df) THEN NoAbort
    ELSE LET e == _check_for_errors(df, w, idx)
         IN IF e.raised THEN e ELSE AssessRows(df, w, idx + 1)

\* for branch in list_branches: the loop body binds the name df_comp to the
\* rows of the branch, so the binding it leaves is part of the result.
RECURSIVE AssessBranches(_, _, _, _, _)
AssessBranches(df_well, w, list_branches, b, df_comp) ==
    IF b > Len(list_branches) THEN [error |-> NoAbort, df_comp |-> df_comp]
    ELSE LET rows == SelectSeq(df_well, LAMBDA r : r.BRANCH = list_branches[b])
             e == AssessRows(rows, w, 1)
         IN IF e.raised THEN [error |-> e, df_comp |-> rows]
            ELSE AssessBranches(df_well, w, list_branches, b + 1, rows)

\* for well_name in list_wells: df_well is taken from whatever df_comp is
\* bound to when the iteration starts.
RECURSIVE AssessWells(_, _, _)
AssessWells(list_wells, k, df_comp) ==
    IF k > Len(list_wells) THEN NoAbort
    ELSE LET w == list_wells[k]
             df_well == SelectSeq(df_comp, LAMBDA r : r.WELL = w)
             list_branches == unique(BranchColumn(df_well))
             r == AssessBranches(df_well, w, list_branches, 1, df_comp)
         IN IF r.error.raised THEN r.error ELSE AssessWells(list_wells, k + 1, r.df_comp)

assess_completion(df_comp) ==
    AssessWells(unique([i \in DOMAIN df_comp |-> df_comp[i].WELL]), 1, df_comp)

validationFrame ==
    << gp_perf_devicelayer, segment_length, scheduleVars, tableVars, well_name, laterals,
       lat, queries, df_well_all, active_wells, method, warnings, runs >>

AssessCompletion ==
    /\ pc = "new"
    /\ op' = "assess_completion"
    /\ error' = assess_completion(completion_table)
    /\ pc' = "done"
    /\ UNCHANGED << validationFrame, completion_table, returned, log >>

CheckForErrors(idx) ==
    /\ pc = "new"
    /\ op' = "_check_for_errors"
    /\ log' = << << "_check_for_errors", idx >> >>
    /\ error' = _check_for_errors(completion_table, completion_table[idx].WELL, idx)
    /\ pc' = "done"
    /\ UNCHANGED << validationFrame, completion_table, returned >>

Intervals == {<< 0, 1 >>, << 1, 2 >>, << 2, 3 >>}
AssessRowValues ==
    {[WELL |-> w, BRANCH |-> b, STARTMD |-> i[1], ENDMD |-> i[2], ANNULUS |-> "OA",
      DEVICETYPE |-> "PERF"] : w \in Wells, b \in {1, 2}, i \in Intervals}
    \cup {[WELL |-> w, BRANCH |-> b, STARTMD |-> 1, ENDMD |-> 1, ANNULUS |-> "PA",
           DEVICETYPE |-> "PERF"] : w \in Wells, b \in {1, 2}}
CheckRowValues ==
    [WELL : {"A"}, BRANCH : {1}, STARTMD : {0, 1}, ENDMD : {0, 1},
     ANNULUS : {"PA", "OA", "XX"}, DEVICETYPE : {"PERF", "ICV", "XX"}]

NoEngine ==
    /\ gp_perf_devicelayer = FALSE
    /\ segment_length = NoValue
    /\ compsegs = << >>
    /\ compdat = << >>
    /\ InitFields

InitAssess == completion_table \in SeqsUpTo(AssessRowValues, MaxAssessRows) /\ NoEngine
NextAssess == AssessCompletion
SpecAssess == InitAssess /\ [][NextAssess]_vars

InitCheck == completion_table \in SeqsUpTo(CheckRowValues, MaxCheckRows) /\ NoEngine
NextCheck == \E idx \in DOMAIN completion_table : CheckForErrors(idx)
SpecCheck == InitCheck /\ [][NextCheck]_vars

\* C12: assess_completion returns normally only if in every (well, branch) of
\* the table every row after the first starts where the row before it ends.
C12_EveryBranchContiguous ==
    (op = "assess_completion" /\ pc = "done" /\ ~error.raised) =>
        \A w \in WellColumn(completion_table) :
            \A b \in {completion_table[i].BRANCH : i \in DOMAIN completion_table} :
                LET rows == SelectSeq(completion_table, LAMBDA r : r.WELL = w /\ r.BRANCH = b)
                IN \A i \in 2..Len(rows) : rows[i].STARTMD = rows[i - 1].ENDMD

CheckedRow == completion_table[log[1][2]]

----
\* input_validation: check_default_non_packer and set_default_packer_section.
\* These run on the table as read from the case file, whose cells are text.

MaxDefaultRows == 2

Columns ==
    << "WELL", "BRANCH", "STARTMD", "ENDMD", "INNER_ID", "OUTER_ID", "ROUGHNESS", "ANNULUS",
       "NVALVEPERJOINT", "DEVICETYPE", "DEVICENUMBER" >>

\* The keys of a frame's index: the default index numbers the rows from 0.
\* A key is a number or a text.
IntKey(n) == [isstr |-> FALSE, num |-> n, text |-> ""]
StrKey(t) == [isstr |-> TRUE, num |-> 0, text |-> t]

\* df[df["ANNULUS"] != "PA"]: the rows kept carry their index label along.
NonPackerLabels(df) == {IntKey(i - 1) : i \in {j \in DOMAIN df : df[j].ANNULUS # "PA"}}

\* key in series: Series.__contains__ looks the key up in the index of the
\* series, not among its values.
SeriesContains(labels, column, key) == key \in labels

\* df_comp["ROUGHNESS"].replace("1*", 1e-5, inplace=True) acts on the column
\* selected from the copy; whether the copy sees the replacement depends on
\* the pandas in use (copy-on-write or not), so both outcomes are modelled.
ReplaceRoughness(df, in_place) ==
    [i \in DOMAIN df |->
        IF in_place /\ df[i].ROUGHNESS = "1*" THEN [df[i] EXCEPT !.ROUGHNESS = "1e-05"]
        ELSE df[i]]

check_default_non_packer(df_comp, in_place) ==
    LET copy == ReplaceRoughness(df_comp, in_place)
        labels == NonPackerLabels(copy)
        hits == {k \in DOMAIN Columns : SeriesContains(labels, Columns[k], StrKey("1*"))}
    IN IF hits # {}
       THEN [error |-> [raised |-> TRUE, type |-> "SystemExit",
                        head |-> "No default value 1* is allowed in", arg |-> NoValue,
                        tail |-> Columns[CHOOSE k \in hits : \A h \in hits : k <= h]],
             returned |-> EmptyFrame]
       ELSE [error |-> NoAbort, returned |-> copy]

set_default_packer_section_no_device(df_comp) ==
    [i \in DOMAIN df_comp |->
        IF df_comp[i].ANNULUS = "PA"
        THEN [df_comp[i] EXCEPT !.INNER_ID = "0.0", !.OUTER_ID = "0.0", !.ROUGHNESS = "0.0",
                                !.NVALVEPERJOINT = "0.0", !.DEVICENUMBER = "0"]
        ELSE df_comp[i]]

\* np.where(df_comp["ANNULUS"] == "PA", default, column), column by column
set_default_packer_section(df_comp) ==
    [i \in DOMAIN df_comp |->
        IF df_comp[i].ANNULUS = "PA"
        THEN [df_comp[i] EXCEPT !.INNER_ID = "0.0", !.OUTER_ID = "0.0", !.ROUGHNESS = "0.0",
                                !.NVALVEPERJOINT = "0.0", !.DEVICETYPE = "PERF",
                                !.DEVICENUMBER = "0"]
        ELSE df_comp[i]]

CheckDefaultNonPacker ==
    /\ Idle
    /\ op' = "check_default_non_packer"
    /\ \E in_place \in BOOLEAN :
         LET r == check_default_non_packer(completion_table, in_place)
         IN error' = r.error /\ returned' = r.returned
    /\ pc' = "done"
    /\ UNCHANGED << validationFrame, completion_table, log >>

\* The frame passed in is changed in place and returned.
SetDefaultPackerSection ==
    /\ Idle
    /\ op' = "set_default_packer_section"
    /\ completion_table' = set_default_packer_section(completion_table)
    /\ returned' = completion_table'
    /\ error' = NoAbort
    /\ pc' = "done"
    /\ UNCHANGED << validationFrame, log >>

DefaultRowValues ==
    [WELL : {"A"}, BRANCH : {"1"}, STARTMD : {"0"}, ENDMD : {"1"}, INNER_ID : {"1*", "0.2"},
     OUTER_ID : {"0.3"}, ROUGHNESS : {"1*", "0.1"}, ANNULUS : {"PA", "OA"},
     NVALVEPERJOINT : {"1"}, DEVICETYPE : {"PERF", "ICD"}, DEVICENUMBER : {"1*", "1"}]

InitDefault == completion_table \in SeqsUpTo(DefaultRowValues, MaxDefaultRows) /\ NoEngine
NextDefault == CheckDefaultNonPacker \/ SetDefaultPackerSection
SpecDefault == InitDefault /\ [][NextDefault]_vars

\* C14: check_default_non_packer aborts whenever a row whose annulus is not
\* PA holds "1*" in a column other than ROUGHNESS; it returns the table only
\* when no such row holds "1*" in any column; and it leaves the table passed
\* in as it was.
C14_DefaultMarkerAborts ==
    [][op' = "check_default_non_packer" =>
          /\ (\E i \in DOMAIN completion_table :
                /\ completion_table[i].ANNULUS # "PA"
                /\ \E k \in DOMAIN Columns :
                     Columns[k] # "ROUGHNESS" /\ completion_table[i][Columns[k]] = "1*")
                => (error'.raised /\ error'.head = "No default value 1* is allowed in")
          /\ ~error'.raised =>
                \A i \in DOMAIN returned' :
                    returned'[i].ANNULUS # "PA" =>
                        \A k \in DOMAIN Columns : returned'[i][Columns[k]] # "1*"
          /\ completion_table' = completion_table]_vars

\* C15: set_default_packer_section leaves the number and order of the rows,
\* sets INNER_ID, OUTER_ID, ROUGHNESS, NVALVEPERJOINT and DEVICENUMBER of every
\* PA row to 0 and its DEVICETYPE to PERF, keeps the other columns of a PA row
\* and every row of another annulus, changes nothing when applied again, and
\* so leaves no PA row that counts as an active device for _active_wells.
C15_OnlyPackerRowsDefaulted ==
    [][op' = "set_default_packer_section" =>
          /\ Len(completion_table') = Len(completion_table)
          /\ returned' = completion_table'
          /\ \A i \in DOMAIN completion_table :
                IF completion_table[i].ANNULUS = "PA"
                THEN /\ completion_table'[i].INNER_ID = "0.0"
                     /\ completion_table'[i].OUTER_ID = "0.0"
                     /\ completion_table'[i].ROUGHNESS = "0.0"
                     /\ completion_table'[i].NVALVEPERJOINT = "0.0"
                     /\ completion_table'[i].DEVICETYPE = "PERF"
                     /\ completion_table'[i].DEVICENUMBER = "0"
                     /\ \A c \in {"WELL", "BRANCH", "STARTMD", "ENDMD", "ANNULUS"} :
                           completion_table'[i][c] = completion_table[i][c]
                ELSE completion_table'[i] = completion_table[i]
          /\ op = "set_default_packer_section" => completion_table' = completion_table
          /\ \A w \in WellColumn(completion_table') :
                perf_check(completion_table', w) <=>
                    ~ \E i \in DOMAIN completion_table :
                        /\ completion_table[i].WELL = w
                        /\ completion_table[i].ANNULUS # "PA"
                        /\ completion_table[i].DEVICETYPE
                              \in {"AICD", "AICV", "DAR", "ICD", "VALVE", "ICV"}]_vars

\* A packer row has been defaulted beside a row of open annulus that keeps
\* its default marker and its device.
C15_Witness ==
    /\ op = "set_default_packer_section"
    /\ \E i, j \in DOMAIN completion_table :
         /\ completion_table[i].ANNULUS = "PA"
         /\ completion_table[i].INNER_ID = "0.0"
         /\ completion_table[i].DEVICETYPE = "PERF"
         /\ completion_table[j].ANNULUS = "OA"
         /\ completion_table[j].INNER_ID = "1*"
         /\ completion_table[j].DEVICETYPE = "ICD"

====
